---- MODULE Spec2Model ----
(***************************************************************************)
(* Merkle Red-Black Tree (MRBT) of core.py as a state machine.             *)
(*                                                                         *)
(* A tree object is a record [root, node, hsh]: `node` is the store of     *)
(* Node objects (a function from object identities 1..n to records of the  *)
(* Node fields), `root` the identity held by MRBT._root and `hsh` the name *)
(* of the hash chosen at construction.  Every public method is one         *)
(* operator from a tree object to the tree object it leaves behind,        *)
(* translated statement by statement; loops are recursive operators.       *)
(***************************************************************************)
EXTENDS Integers, Sequences, FiniteSets, TLC

\* ------------------------------------------------------------------ bounds
MaxKey == 4
NumVals == 2
MaxLog == 4
ReadMaxKey == 2
DeepMaxKey == 6
PairMaxKey == 3

Keys == 1..MaxKey
Vals == 1..NumVals
DeepKeys == 1..DeepMaxKey
PairKeys == 1..PairMaxKey
ReadKeys == 1..ReadMaxKey

\* --------------------------------------------------------------- constants
\* Python's None, for object references and for values (identities and the
\* values of Vals are all >= 1).
None == 0
\* math.inf: greater than every key the model draws.
INF == MaxKey + DeepMaxKey + PairMaxKey + 1
\* Width of the key encoding, to_bytes(32, ...).
KeyWidth == 32

RED == "RED"
BLACK == "BLACK"
NIL == "NIL"

\* bytes(): the empty byte string.
EmptyBytes == <<>>

\* ------------------------------------------------------------------- state
VARIABLES
    tree,   \* tree[t]: the MRBT object t ("A", and "B" where two trees are compared)
    ref,    \* ref[t]: the reference key -> value map of tree t (None = key absent)
    last    \* the last public call on tree A: [op, key, val, found, hang, before, other, log]

vars == <<tree, ref, last>>

\* ------------------------------------------------------------ Node helpers
\* Node.__init__
Node(key, color, parent, left, right, val) ==
    [ color |-> color, parent |-> parent, left |-> left, right |-> right,
      key |-> key,
      val |-> IF color = NIL /\ key # INF THEN val ELSE None,
      digest |-> <<EmptyBytes, EmptyBytes>>,
      weight |-> IF color = NIL /\ key # INF THEN 1 ELSE 0,
      shortcut |-> None, next |-> None, prev |-> None ]

\* Node.dump_key: 32 bytes, big endian, two's complement (keys of the model
\* are in 0..255, so every byte but the last is 0); empty for the sentinel.
dump_key(key) ==
    IF key = INF THEN EmptyBytes
    ELSE [i \in 1..KeyWidth |-> IF i = KeyWidth THEN key ELSE 0]

\* Node.dump_data: json.dumps(val).encode("utf-8"); None is "null", an
\* integer 1..9 its decimal digit.
dump_data(val) ==
    IF val = None THEN <<110, 117, 108, 108>> ELSE <<48 + val>>

\* The dual-argument hash built in MRBT.__init__ / verify: func(x + y).digest(),
\* modelled collision-free (a constructor tagged with the function's name).
hsh(name, x, y) == <<name, x, y>>

\* Node.is_root
is_root(T, n) == T.node[n].parent = None

\* Node.is_child
is_child(T, n) == ~is_root(T, n)

\* Node.is_left_child
is_left_child(T, n) ==
    IF T.node[n].parent = None THEN FALSE
    ELSE IF T.node[T.node[n].parent].left = None THEN FALSE
    ELSE T.node[T.node[n].parent].left = n

\* Node.is_right_child
is_right_child(T, n) ==
    IF T.node[n].parent = None THEN FALSE
    ELSE IF T.node[T.node[n].parent].right = None THEN FALSE
    ELSE T.node[T.node[n].parent].right = n

\* Node.get_sibling
get_sibling(T, n) ==
    IF is_root(T, n) THEN None
    ELSE IF is_left_child(T, n) THEN T.node[T.node[n].parent].right
    ELSE T.node[T.node[n].parent].left

\* Node.get_grandparent
get_grandparent(T, n) ==
    IF is_root(T, n) THEN None
    ELSE IF is_root(T, T.node[n].parent) THEN None
    ELSE T.node[T.node[n].parent].parent

\* Node.get_uncle
get_uncle(T, n) ==
    IF is_root(T, n) THEN None ELSE get_sibling(T, T.node[n].parent)

\* A Python bool used as an index: True is 1, False is 0.
b2i(b) == IF b THEN 1 ELSE 0

\* Node.__getitem__: 0 (False) is the left child, anything else the right.
Node_getitem(T, n, direction) ==
    IF direction = 0 THEN T.node[n].left ELSE T.node[n].right

\* Node.__setitem__
Node_setitem(T, n, direction, c) ==
    IF direction = 0 THEN [T EXCEPT !.node[n].left = c]
    ELSE [T EXCEPT !.node[n].right = c]

\* Assignment to one attribute of one Node object.
setattr(T, n, f, v) == [T EXCEPT !.node[n][f] = v]

\* ------------------------------------------------------------ digest engine
\* Faulty variant: a leaf's digest leaves its value out.
calc_digest_ignores_value(T, n) ==
    IF T.node[n].color # NIL
    THEN LET lhs == T.node[Node_getitem(T, n, 0)].digest
             rhs == T.node[Node_getitem(T, n, 1)].digest
         IN  <<hsh(T.hsh, lhs[1], lhs[2]), hsh(T.hsh, rhs[1], rhs[2])>>
    ELSE <<hsh(T.hsh, dump_data(None), EmptyBytes),
           hsh(T.hsh, dump_key(T.node[n].key), EmptyBytes)>>

\* MRBT.__init__._calc_digest
calc_digest(T, n) ==
    IF T.node[n].color # NIL
    THEN LET lhs == T.node[Node_getitem(T, n, 0)].digest
             rhs == T.node[Node_getitem(T, n, 1)].digest
         IN  <<hsh(T.hsh, lhs[1], lhs[2]), hsh(T.hsh, rhs[1], rhs[2])>>
    ELSE <<hsh(T.hsh, dump_data(T.node[n].val), EmptyBytes),
           hsh(T.hsh, dump_key(T.node[n].key), EmptyBytes)>>

\* Faulty variant: the digest is refreshed and the weight is left as it was.
update_digest_keeps_weight(T, n) ==
    setattr(T, n, "digest", calc_digest(T, n))

\* MRBT._update_digest
update_digest(T, n) ==
    LET T1 == IF T.node[n].color # NIL
              THEN setattr(T, n, "weight",
                           T.node[Node_getitem(T, n, 0)].weight + T.node[Node_getitem(T, n, 1)].weight)
              ELSE T
    IN  setattr(T1, n, "digest", calc_digest(T1, n))

\* The closing loop of _insert_fix, _delete_fix and set:
\*     while focus is not None: self._update_digest(focus); focus = focus.parent
\* Faulty variant: the loop stops below the root (while focus.parent is not None).
RECURSIVE sweep_below_root(_, _)
sweep_below_root(T, focus) ==
    IF focus = None THEN T
    ELSE IF T.node[focus].parent = None THEN T
    ELSE LET T1 == update_digest(T, focus) IN sweep_below_root(T1, T1.node[focus].parent)

RECURSIVE sweep(_, _)
sweep(T, focus) ==
    IF focus = None THEN T
    ELSE LET T1 == update_digest(T, focus) IN sweep(T1, T1.node[focus].parent)

\* MRBT._search
\* Faulty variant: the descent takes the wrong side.
RECURSIVE search_wrong_side(_, _, _)
search_wrong_side(T, focus, key) ==
    IF T.node[focus].color = NIL THEN <<FALSE, focus>>
    ELSE IF key = T.node[focus].key THEN <<TRUE, focus>>
    ELSE IF key < T.node[focus].key THEN search_wrong_side(T, Node_getitem(T, focus, 1), key)
    ELSE search_wrong_side(T, Node_getitem(T, focus, 0), key)

RECURSIVE search_from(_, _, _)
search_from(T, focus, key) ==
    IF T.node[focus].color = NIL THEN <<FALSE, focus>>
    ELSE IF key = T.node[focus].key THEN <<TRUE, focus>>
    ELSE IF key < T.node[focus].key THEN search_from(T, Node_getitem(T, focus, 0), key)
    ELSE search_from(T, Node_getitem(T, focus, 1), key)

search(T, key) == search_from(T, T.root, key)

\* MRBT._rotate
\* Faulty variant: the subtree that changes sides keeps its old parent.
rotate_orphans_subtree(T, n) ==
    LET direction == b2i(is_left_child(T, n))
        parent == T.node[n].parent
        subtree == IF T.node[n].color # NIL THEN Node_getitem(T, n, direction) ELSE None
        T1 == IF is_root(T, parent)
              THEN [T EXCEPT !.root = n]
              ELSE Node_setitem(T, T.node[parent].parent, 1 - b2i(is_left_child(T, parent)), n)
        T2 == setattr(T1, n, "parent", T1.node[parent].parent)
        T3 == Node_setitem(T2, n, direction, parent)
        T4 == setattr(T3, parent, "parent", n)
    IN  Node_setitem(T4, parent, 1 - direction, subtree)

rotate(T, n) ==
    LET direction == b2i(is_left_child(T, n))
        parent == T.node[n].parent
        subtree == IF T.node[n].color # NIL THEN Node_getitem(T, n, direction) ELSE None
        T1 == IF is_root(T, parent)
              THEN [T EXCEPT !.root = n]
              ELSE Node_setitem(T, T.node[parent].parent, 1 - b2i(is_left_child(T, parent)), n)
        T2 == setattr(T1, n, "parent", T1.node[parent].parent)
        T3 == Node_setitem(T2, n, direction, parent)
        T4 == setattr(T3, parent, "parent", n)
        T5 == Node_setitem(T4, parent, 1 - direction, subtree)
    IN  IF subtree # None THEN setattr(T5, subtree, "parent", parent) ELSE T5

\* A call self._rotate(node): the tree it was called on and the tree it
\* returned with, before any statement after it.
rotation(before, after, node) == [before |-> before, after |-> after, node |-> node]

\* ------------------------------------------------------------------ balancer
\* The condition of the while loop of MRBT._insert_fix.
insert_fix_guard(T, focus) ==
    is_child(T, focus) /\ T.node[T.node[focus].parent].color = RED

\* One iteration of the while loop of MRBT._insert_fix: the tree and focus it
\* leaves, the case it took, and in rot the call of _rotate it made.
insert_fix_body(T, focus) ==
    LET P == T.node[focus].parent
        G == get_grandparent(T, focus)
        U == get_uncle(T, focus)
    IN  IF G = None
        THEN [T |-> setattr(T, P, "color", BLACK), focus |-> focus,
              case |-> "root", rot |-> <<>>]
        ELSE IF T.node[U].color = RED                                  \* CASE 1
        THEN LET T1 == setattr(T, P, "color", BLACK)
                 T2 == setattr(T1, U, "color", BLACK)
                 T3 == setattr(T2, G, "color", RED)
                 T4 == update_digest(T3, focus)
                 T5 == update_digest(T4, P)
             IN  [T |-> T5, focus |-> G, case |-> "1", rot |-> <<>>]
        ELSE IF is_left_child(T, focus) # is_left_child(T, T.node[focus].parent)  \* CASE 2
        THEN LET T1 == rotate(T, focus)
             IN  [T |-> T1, focus |-> P, case |-> "2", rot |-> <<rotation(T, T1, focus)>>]
        ELSE LET T1 == update_digest(T, focus)                         \* CASE 3
                 T2 == rotate(T1, P)
                 T3 == setattr(T2, P, "color", BLACK)
                 T4 == setattr(T3, G, "color", RED)
             IN  [T |-> T4, focus |-> G, case |-> "3", rot |-> <<rotation(T1, T2, P)>>]

\* The while loop of MRBT._insert_fix; yields <<tree, focus>> at loop exit.
RECURSIVE insert_fix_loop(_, _)
insert_fix_continue(r) == insert_fix_loop(r.T, r.focus)

insert_fix_loop(T, focus) ==
    IF ~insert_fix_guard(T, focus) THEN <<T, focus>>
    ELSE insert_fix_continue(insert_fix_body(T, focus))

\* MRBT._insert_fix, line 829: the new leaf's digest, before the loop.
insert_fix_entry(T, focus) == update_digest(T, Node_getitem(T, focus, 0))

\* The iterations the while loop of MRBT._insert_fix runs from (T, focus), in
\* order.
RECURSIVE insert_fix_trace(_, _)
insert_fix_trace_continue(r) == <<r>> \o insert_fix_trace(r.T, r.focus)

insert_fix_trace(T, focus) ==
    IF ~insert_fix_guard(T, focus) THEN <<>>
    ELSE insert_fix_trace_continue(insert_fix_body(T, focus))

\* MRBT._insert_fix
insert_fix(T, focus) ==
    LET r  == insert_fix_loop(insert_fix_entry(T, focus), focus)
        T1 == r[1]
        T2 == IF T1.node[T1.root].color = RED                          \* CASE 0
              THEN setattr(T1, T1.root, "color", BLACK) ELSE T1
    IN  sweep(T2, r[2])

\* The nephew pair read by an iteration of the while d_black loop: Sc is
\* assigned when the sibling is an internal node and otherwise keeps the value
\* of the iteration before (<<>>: not yet assigned).
nephews(T, S, Sc0) ==
    IF S # None /\ T.node[S].color # NIL
    THEN <<Node_getitem(T, S, 0), Node_getitem(T, S, 1)>> ELSE Sc0

\* An iteration that ends without a continue: no case matched, and the loop
\* repeats on the same state.
no_case(T, focus, S, Sc) ==
    [T |-> T, focus |-> focus, d_black |-> TRUE, Sc |-> Sc, S |-> S,
     case |-> "none", rot |-> <<>>]

\* An iteration that reads Sc before any assignment to it.
unbound(T, focus, S, Sc) ==
    [T |-> T, focus |-> focus, d_black |-> TRUE, Sc |-> Sc, S |-> S,
     case |-> "UnboundLocalError", rot |-> <<>>]

\* Lines 892-906 of MRBT._delete_fix: cases 6 and 5.
delete_fix_far(T, focus, direction, P, S, Sc) ==
    IF T.node[S].color # BLACK THEN no_case(T, focus, S, Sc)
    ELSE IF Sc = <<>> THEN unbound(T, focus, S, Sc)
    ELSE IF T.node[Sc[direction + 1]].color = RED                      \* CASE 6
    THEN LET T1 == rotate(T, S)
             T2 == setattr(T1, S, "color", T1.node[P].color)
             T3 == setattr(T2, P, "color", BLACK)
             T4 == setattr(T3, Sc[direction + 1], "color", BLACK)
         IN  [T |-> T4, focus |-> focus, d_black |-> FALSE, Sc |-> Sc, S |-> S,
              case |-> "6", rot |-> <<rotation(T, T1, S)>>]
    ELSE IF T.node[Sc[(1 - direction) + 1]].color = RED                \* CASE 5
    THEN LET T1 == rotate(T, Node_getitem(T, S, 1 - direction))
             T2 == setattr(T1, Sc[(1 - direction) + 1], "color", BLACK)
             T3 == setattr(T2, S, "color", RED)
             T4 == update_digest(T3, S)
             T5 == update_digest(T4, Sc[(1 - direction) + 1])
         IN  [T |-> T5, focus |-> focus, d_black |-> TRUE, Sc |-> Sc, S |-> S,
              case |-> "5",
              rot |-> <<rotation(T, T1, Node_getitem(T, S, 1 - direction))>>]
    ELSE no_case(T, focus, S, Sc)

\* Faulty variant: case 4 is missing.
delete_fix_near_without_4(T, focus, direction, P, S, Sc) ==
    IF T.node[P].color = BLACK /\ T.node[S].color = BLACK /\ Sc = <<>>
    THEN unbound(T, focus, S, Sc)
    ELSE IF /\ T.node[P].color = BLACK /\ T.node[S].color = BLACK
            /\ T.node[Sc[1]].color # RED /\ T.node[Sc[2]].color # RED   \* CASE 3
    THEN [T |-> update_digest(setattr(T, S, "color", RED), focus), focus |-> P,
          d_black |-> TRUE, Sc |-> Sc, S |-> S, case |-> "3", rot |-> <<>>]
    ELSE delete_fix_far(T, focus, direction, P, S, Sc)

\* Lines 880-891 of MRBT._delete_fix: cases 3 and 4, else on to 6 and 5.
delete_fix_near(T, focus, direction, P, S, Sc) ==
    IF T.node[P].color = BLACK /\ T.node[S].color = BLACK /\ Sc = <<>>
    THEN unbound(T, focus, S, Sc)
    ELSE IF /\ T.node[P].color = BLACK /\ T.node[S].color = BLACK
            /\ T.node[Sc[1]].color # RED /\ T.node[Sc[2]].color # RED   \* CASE 3
    THEN [T |-> update_digest(setattr(T, S, "color", RED), focus), focus |-> P,
          d_black |-> TRUE, Sc |-> Sc, S |-> S, case |-> "3", rot |-> <<>>]
    ELSE IF T.node[P].color = RED /\ Sc = <<>>
    THEN unbound(T, focus, S, Sc)
    ELSE IF /\ T.node[P].color = RED
            /\ T.node[Sc[1]].color # RED /\ T.node[Sc[2]].color # RED   \* CASE 4
    THEN [T |-> setattr(setattr(T, P, "color", BLACK), S, "color", RED),
          focus |-> focus, d_black |-> FALSE, Sc |-> Sc, S |-> S,
          case |-> "4", rot |-> <<>>]
    ELSE delete_fix_far(T, focus, direction, P, S, Sc)

\* One iteration of the while d_black loop of MRBT._delete_fix: the tree,
\* focus, flag and Sc it leaves, the sibling S it looked at, the case it took
\* and in rot the call of _rotate it made.
delete_fix_body(T, focus, Sc0) ==
    LET direction == b2i(is_left_child(T, focus))
        P == T.node[focus].parent
        S == get_sibling(T, focus)
        Sc == nephews(T, S, Sc0)
    IN  IF P = None                                                    \* CASE 1
        THEN [T |-> T, focus |-> focus, d_black |-> FALSE, Sc |-> Sc, S |-> S,
              case |-> "1", rot |-> <<>>]
        ELSE IF T.node[S].color = RED                                  \* CASE 2
        THEN LET T1 == rotate(T, S)
                 T2 == setattr(T1, S, "color", BLACK)
                 T3 == setattr(T2, P, "color", RED)
             IN  [T |-> T3, focus |-> focus, d_black |-> TRUE, Sc |-> Sc, S |-> S,
                  case |-> "2", rot |-> <<rotation(T, T1, S)>>]
        ELSE delete_fix_near(T, focus, direction, P, S, Sc)

\* The while d_black loop of MRBT._delete_fix.  Yields [T, focus, hang,
\* raised]: hang is TRUE when an iteration matches no case and so repeats
\* unchanged for ever, raised when an iteration reads the unassigned Sc.
RECURSIVE delete_fix_loop(_, _, _, _)
delete_fix_continue(r) ==
    IF r.case = "none"
    THEN [T |-> r.T, focus |-> r.focus, hang |-> TRUE, raised |-> FALSE]
    ELSE IF r.case = "UnboundLocalError"
    THEN [T |-> r.T, focus |-> r.focus, hang |-> FALSE, raised |-> TRUE]
    ELSE delete_fix_loop(r.T, r.focus, r.d_black, r.Sc)

delete_fix_loop(T, focus, d_black, Sc0) ==
    IF ~d_black THEN [T |-> T, focus |-> focus, hang |-> FALSE, raised |-> FALSE]
    ELSE delete_fix_continue(delete_fix_body(T, focus, Sc0))

\* The iterations the while d_black loop of MRBT._delete_fix runs, in order;
\* an iteration that matches no case, or raises, is the last one listed.
RECURSIVE delete_fix_trace(_, _, _, _)
delete_fix_trace_continue(r) ==
    IF r.case \in {"none", "UnboundLocalError"} THEN <<r>>
    ELSE <<r>> \o delete_fix_trace(r.T, r.focus, r.d_black, r.Sc)

delete_fix_trace(T, focus, d_black, Sc0) ==
    IF ~d_black THEN <<>>
    ELSE delete_fix_trace_continue(delete_fix_body(T, focus, Sc0))

\* Faulty variant: the double-black flag is ignored.
delete_fix_no_loop(T, focus, d_black) ==
    [T |-> sweep(T, focus), hang |-> FALSE]

\* MRBT._delete_fix; yields [T, hang]: hang is TRUE when the call does not
\* return (the loop repeats for ever, or raises).
delete_fix(T, focus, d_black) ==
    LET r == delete_fix_loop(T, focus, d_black, <<>>)
    IN  [T |-> IF r.hang \/ r.raised THEN r.T ELSE sweep(r.T, r.focus),
         hang |-> r.hang \/ r.raised]

\* ------------------------------------------------------- object identities
\* Node objects are Python objects: a new one gets an identity no live object
\* has, and an object no reference leads to is reclaimed.  Identities are not
\* observable, so between public calls the store is kept in one canonical
\* numbering: the nodes of the tree in pre-order, then any other object still
\* referenced, in the order of their old identities.
new_id(T, i) == Len(T.node) + i

RECURSIVE preorder(_, _)
preorder(T, n) ==
    IF n = None THEN <<>>
    ELSE <<n>> \o preorder(T, T.node[n].left) \o preorder(T, T.node[n].right)

refs(T, n) ==
    {T.node[n].parent, T.node[n].left, T.node[n].right,
     T.node[n].shortcut, T.node[n].next, T.node[n].prev} \ {None}

RECURSIVE live_from(_, _)
live_from(T, S) ==
    LET S1 == S \cup UNION {refs(T, n) : n \in S}
    IN  IF S1 = S THEN S ELSE live_from(T, S1)

RECURSIVE ascending(_)
ascending(S) ==
    IF S = {} THEN <<>>
    ELSE LET m == CHOOSE x \in S : \A y \in S : x <= y
         IN  <<m>> \o ascending(S \ {m})

collect(T) ==
    LET tr    == preorder(T, T.root)
        inTr  == {tr[i] : i \in 1..Len(tr)}
        order == tr \o ascending(live_from(T, inTr) \ inTr)
        new(o) == IF o = None THEN None
                  ELSE CHOOSE i \in 1..Len(order) : order[i] = o
        move(nd) == [nd EXCEPT !.parent = new(@), !.left = new(@), !.right = new(@),
                               !.shortcut = new(@), !.next = new(@), !.prev = new(@)]
    IN  [T EXCEPT !.root = new(T.root),
                  !.node = [i \in 1..Len(order) |-> move(T.node[order[i]])]]

\* --------------------------------------------------------- public methods
\* The if/elif chain of MRBT.__init__ and of verify: the hashlib function a
\* name selects; a name that is not recognised selects sha256.
HashNames == {"sha1", "sha224", "sha256", "sha384", "sha512", "blake2b", "blake2s"}

hash_func(name) == IF name \in HashNames THEN name ELSE "sha256"

\* MRBT.__init__
MRBT(name) ==
    update_digest([root |-> 1, hsh |-> hash_func(name),
                   node |-> <<Node(INF, NIL, None, None, None, None)>>], 1)

\* An item of the iterable handed to from_iter: a bare key (an int) or a
\* (key, value) pair.
KeyItem(key) == [pair |-> FALSE, key |-> key, val |-> None]
PairItem(key, val) == [pair |-> TRUE, key |-> key, val |-> val]

\* dict(pairs): the items of the dict in the order it enumerates them; a key
\* that comes again keeps its place and takes the later value.
RECURSIVE py_dict_loop(_, _)
py_dict_loop(items, pairs) ==
    IF pairs = <<>> THEN items
    ELSE py_dict_loop(
             IF \E i \in 1..Len(items) : items[i].key = Head(pairs).key
             THEN [i \in 1..Len(items) |->
                      IF items[i].key = Head(pairs).key THEN Head(pairs) ELSE items[i]]
             ELSE Append(items, Head(pairs)),
             Tail(pairs))

py_dict(pairs) == py_dict_loop(<<>>, pairs)

\* MRBT.size / MRBT.__len__
size(T) == T.node[T.root].weight

\* MRBT.digest
digest(T) == T.node[T.root].digest

\* MRBT.insert, lines 390-408: the key is absent and focus is the leaf the
\* search ended at; the new leaf and node are linked in.
insert_link(T, focus, key, val) ==
    LET direction == b2i(is_left_child(T, focus))
        insertion_leaf == new_id(T, 1)
        insertion_node == new_id(T, 2)
        T1 == [T EXCEPT !.node = @ \o
                 << [Node(key, NIL, None, None, None, val)
                        EXCEPT !.shortcut = insertion_node,
                               !.parent = insertion_node,
                               !.prev = T.node[focus].prev,
                               !.next = focus],
                    [Node(key, RED, T.node[focus].parent, insertion_leaf, focus, None)
                        EXCEPT !.shortcut = insertion_leaf] >>]
        T2 == setattr(T1, focus, "prev", insertion_leaf)
        T3 == IF T.node[focus].prev # None
              THEN setattr(T2, T.node[focus].prev, "next", insertion_leaf)
              ELSE T2
        T4 == IF is_root(T, focus)
              THEN [T3 EXCEPT !.root = insertion_node]
              ELSE Node_setitem(T3, T.node[focus].parent, 1 - direction, insertion_node)
    IN  setattr(T4, focus, "parent", insertion_node)

\* MRBT.insert, lines 390-410.
insert_at(T, focus, key, val) ==
    collect(insert_fix(insert_link(T, focus, key, val), new_id(T, 2)))

\* The iterations of the insert-fix loop in the call T.insert(key, val).
insert_iterations(T, key, val) ==
    IF search(T, key)[1] THEN <<>>
    ELSE insert_fix_trace(
             insert_fix_entry(insert_link(T, search(T, key)[2], key, val), new_id(T, 2)),
             new_id(T, 2))

\* Faulty variant: a present key has its value overwritten.
insert_overwrites(T, key, val) ==
    LET sr == search(T, key) IN
    IF sr[1]
    THEN sweep(setattr(T, T.node[sr[2]].shortcut, "val", val), T.node[sr[2]].shortcut)
    ELSE insert_at(T, sr[2], key, val)

\* MRBT.insert
insert(T, key, val) ==
    LET sr == search(T, key) IN
    IF sr[1] THEN T ELSE insert_at(T, sr[2], key, val)

\* Faulty variant: the successor's prev is not redirected.
delete_unlink_forward_only(T, focus) ==
    IF T.node[focus].prev # None
    THEN setattr(T, T.node[focus].prev, "next", T.node[focus].next)
    ELSE T

\* MRBT.delete, lines 427-429: the leaf leaves the leaf list.
delete_unlink(T, focus) ==
    LET T1 == IF T.node[focus].prev # None
              THEN setattr(T, T.node[focus].prev, "next", T.node[focus].next)
              ELSE T
    IN  setattr(T1, T.node[focus].next, "prev", T.node[focus].prev)

\* Faulty variant: the inherited leaf's shortcut is not pointed back.
delete_inherit_one_way(T, search_result, focus) ==
    LET parent == T.node[focus].parent
        T1 == setattr(T, search_result, "key", T.node[parent].key)
    IN  setattr(T1, search_result, "shortcut", T1.node[parent].shortcut)

\* Faulty variant: the matching node keeps its key.
delete_inherit_keeps_key(T, search_result, focus) ==
    LET parent == T.node[focus].parent
        T2 == setattr(T, search_result, "shortcut", T.node[parent].shortcut)
    IN  setattr(T2, T2.node[search_result].shortcut, "shortcut", search_result)

\* MRBT.delete, lines 430-432: the matching node takes over the key and the
\* shortcut of the leaf's parent.
delete_inherit(T, search_result, focus) ==
    LET parent == T.node[focus].parent
        T1 == setattr(T, search_result, "key", T.node[parent].key)
        T2 == setattr(T1, search_result, "shortcut", T1.node[parent].shortcut)
    IN  setattr(T2, T2.node[search_result].shortcut, "shortcut", search_result)

\* Faulty variant: the sibling's parent link is not updated.
delete_transplant_keeps_parent(T, parent, sibling) ==
    LET T1 == IF is_root(T, parent)
              THEN [T EXCEPT !.root = sibling]
              ELSE Node_setitem(T, T.node[parent].parent,
                                1 - b2i(is_left_child(T, parent)), sibling)
    IN  IF T.node[sibling].color = RED
        THEN setattr(T1, sibling, "color", BLACK) ELSE T1

\* Faulty variant: the root is not replaced when the parent was the root.
delete_transplant_keeps_root(T, parent, sibling) ==
    LET T1 == IF is_root(T, parent)
              THEN T
              ELSE Node_setitem(T, T.node[parent].parent,
                                1 - b2i(is_left_child(T, parent)), sibling)
        T2 == setattr(T1, sibling, "parent", T.node[parent].parent)
    IN  IF T.node[sibling].color = RED
        THEN setattr(T2, sibling, "color", BLACK) ELSE T2

\* MRBT.delete, lines 439-447: the sibling takes the parent's place.
delete_transplant(T, parent, sibling) ==
    LET T1 == IF is_root(T, parent)
              THEN [T EXCEPT !.root = sibling]
              ELSE Node_setitem(T, T.node[parent].parent,
                                1 - b2i(is_left_child(T, parent)), sibling)
        T2 == setattr(T1, sibling, "parent", T.node[parent].parent)
    IN  IF T.node[sibling].color = RED
        THEN setattr(T2, sibling, "color", BLACK) ELSE T2

\* Faulty variant: the double-black flag is set whatever the colours.
delete_leaf_call_always_black(T, focus) ==
    LET parent == T.node[focus].parent
        sibling == get_sibling(T, focus)
    IN  [T |-> delete_transplant(T, parent, sibling), focus |-> sibling,
         d_black |-> TRUE]

\* MRBT.delete, lines 434-447: the tree, focus and flag _delete_fix is called
\* with.
delete_leaf_call(T, focus) ==
    LET parent == T.node[focus].parent
        sibling == get_sibling(T, focus)
    IN  [T |-> delete_transplant(T, parent, sibling), focus |-> sibling,
         d_black |-> (T.node[parent].color # RED) /\ (T.node[sibling].color # RED)]

\* MRBT.delete, line 449.
delete_fix_of(c) == delete_fix(c.T, c.focus, c.d_black)

\* MRBT.delete, lines 434-449.
delete_leaf(T, focus) == delete_fix_of(delete_leaf_call(T, focus))

\* MRBT.delete, lines 426-449.
delete_found(T, search_result, focus) ==
    delete_leaf(delete_inherit(delete_unlink(T, focus), search_result, focus), focus)

\* MRBT.delete, lines 426-447: the tree, focus and flag _delete_fix is called
\* with for the leaf `focus` of the matching node search_result.
delete_fix_call(T, search_result, focus) ==
    delete_leaf_call(delete_inherit(delete_unlink(T, focus), search_result, focus), focus)

delete_iterations_of(c) == delete_fix_trace(c.T, c.focus, c.d_black, <<>>)

\* The iterations of the delete-fix loop in the call T.delete(key).
delete_iterations(T, key) ==
    IF ~search(T, key)[1] THEN <<>>
    ELSE delete_iterations_of(
             delete_fix_call(T, search(T, key)[2], T.node[search(T, key)[2]].shortcut))

\* MRBT.delete; yields [T, hang].
delete_call(T, key) ==
    LET sr == search(T, key) IN
    IF ~sr[1] THEN [T |-> T, hang |-> FALSE]
    ELSE LET r == delete_found(T, sr[2], T.node[sr[2]].shortcut)
         IN  [T |-> collect(r.T), hang |-> r.hang]

delete(T, key) == delete_call(T, key).T

\* Faulty variant: the value is stored and no digest is refreshed.
set_no_sweep(T, key, val) ==
    LET sr == search(T, key) IN
    IF ~sr[1] THEN insert(T, key, val)
    ELSE setattr(T, T.node[sr[2]].shortcut, "val", val)

\* Faulty variant: a missing key is left alone (update only).
set_update_only(T, key, val) ==
    LET sr == search(T, key) IN
    IF ~sr[1] THEN T
    ELSE LET focus == T.node[sr[2]].shortcut
         IN  sweep(setattr(T, focus, "val", val), focus)

\* MRBT.set
set(T, key, val) ==
    LET sr == search(T, key) IN
    IF ~sr[1] THEN insert(T, key, val)
    ELSE LET focus == T.node[sr[2]].shortcut
         IN  sweep(setattr(T, focus, "val", val), focus)

\* Faulty variant: indexed assignment only updates a key that is present.
setitem_update_only(T, key, val) ==
    IF search(T, key)[1] THEN set(T, key, val) ELSE T

\* MRBT.__setitem__
MRBT_setitem(T, key, val) == set(T, key, val)

\* The for loop of MRBT.from_iter: insert(it) for an int, insert(*it) otherwise.
\* Faulty variant: a key that comes again takes the later value.
RECURSIVE from_iter_loop_last_wins(_, _)
from_iter_loop_last_wins(res, itr) ==
    IF itr = <<>> THEN res
    ELSE from_iter_loop_last_wins(set(res, Head(itr).key, Head(itr).val), Tail(itr))

RECURSIVE from_iter_loop(_, _)
from_iter_loop(res, itr) ==
    IF itr = <<>> THEN res
    ELSE from_iter_loop(
             IF ~Head(itr).pair THEN insert(res, Head(itr).key, None)
             ELSE insert(res, Head(itr).key, Head(itr).val),
             Tail(itr))

\* MRBT.from_iter(itr, hsh=name)
from_iter(itr, name) == from_iter_loop(MRBT(name), itr)

\* The for loop of MRBT.from_dict over dct.items().
RECURSIVE from_dict_loop(_, _)
from_dict_loop(res, items) ==
    IF items = <<>> THEN res
    ELSE from_dict_loop(insert(res, Head(items).key, Head(items).val), Tail(items))

\* MRBT.from_dict(dct, hsh=name)
from_dict(dct, name) == from_dict_loop(MRBT(name), dct)

\* MRBT.__contains__
contains(T, key) == search(T, key)[1]

\* Python values handed to verify: a tuple, None, or an MRBT object.
PyTuple(items) == [type |-> "tuple", items |-> items]
PyNone == [type |-> "NoneType", items |-> <<>>]
PyMRBT(T) == [type |-> "MRBT", digest |-> digest(T)]

\* The loop of MRBT.get that collects the verification object:
\*     while focus is not None: vo.append(focus.digest); focus = focus.parent
RECURSIVE collect_vo(_, _)
collect_vo(T, focus) ==
    IF focus = None THEN <<>>
    ELSE <<T.node[focus].digest>> \o collect_vo(T, T.node[focus].parent)

\* MRBT.get(key, verified=False)
get(T, key) ==
    LET sr == search(T, key) IN
    IF ~sr[1] THEN None ELSE T.node[T.node[sr[2]].shortcut].val

\* MRBT.get(key, verified=True): the pair <<value, verification object>>.
get_verified(T, key) ==
    LET sr == search(T, key) IN
    IF ~sr[1] THEN <<None, PyNone>>
    ELSE LET focus == T.node[sr[2]].shortcut
         IN  <<T.node[focus].val, PyTuple(collect_vo(T, focus))>>

\* MRBT.__eq__
eq(T, other) == digest(T) = digest(other)

\* The dict {"key": ..., "value": ...} that by_keys_order and __iter__ hand
\* out, and the None by_keys_order returns instead.
PyDict(key, value) == [type |-> "dict", key |-> key, value |-> value]
NoDict == [type |-> "NoneType", key |-> None, value |-> None]

\* MRBT.by_keys_order, line 546: the index is out of range.
\* Faulty variant: the index equal to the size is let through.
out_of_range_above_size(T, k) == k > size(T) \/ k < -size(T)

out_of_range(T, k) == k >= size(T) \/ k < -size(T)

\* MRBT.by_keys_order, lines 550-556: the descent by weights.
\* Faulty variant: an index equal to the left weight goes left.
RECURSIVE order_descent_goes_left(_, _, _)
order_descent_goes_left(T, focus, k) ==
    IF T.node[focus].color = NIL THEN focus
    ELSE IF k <= T.node[Node_getitem(T, focus, 0)].weight /\ k > 0
    THEN order_descent_goes_left(T, Node_getitem(T, focus, 0), k - 1)
    ELSE IF k < T.node[Node_getitem(T, focus, 0)].weight
    THEN order_descent_goes_left(T, Node_getitem(T, focus, 0), k)
    ELSE order_descent_goes_left(T, Node_getitem(T, focus, 1),
                                 k - T.node[Node_getitem(T, focus, 0)].weight)

RECURSIVE order_descent(_, _, _)
order_descent(T, focus, k) ==
    IF T.node[focus].color = NIL THEN focus
    ELSE IF k < T.node[Node_getitem(T, focus, 0)].weight
    THEN order_descent(T, Node_getitem(T, focus, 0), k)
    ELSE order_descent(T, Node_getitem(T, focus, 1),
                       k - T.node[Node_getitem(T, focus, 0)].weight)

\* MRBT.by_keys_order(k, as_json=False)
by_keys_order(T, k) ==
    IF out_of_range(T, k) THEN NoDict
    ELSE LET focus == order_descent(T, T.root, IF k < 0 THEN size(T) + k ELSE k)
         IN  PyDict(T.node[focus].key, T.node[focus].val)

\* MRBT.get_change_set, lines 597-601: the parent of the leftmost leaf.
RECURSIVE leftmost(_, _)
leftmost(T, focus) ==
    IF Node_getitem(T, focus, 0) # None THEN leftmost(T, Node_getitem(T, focus, 0))
    ELSE focus

first_focus(T) == T.node[leftmost(T, T.root)].parent

\* MRBT.get_change_set._next, the loop of the skip branch:
\*     while focus[target].is_right_child(): focus[target] = focus[target].parent
RECURSIVE climb(_, _)
climb(T, focus) ==
    IF is_right_child(T, focus) THEN climb(T, T.node[focus].parent) ELSE focus

\* Faulty variant: the right subtree is skipped whether or not its digests agree.
next_always_skips(T, focus, skip) ==
    T.node[climb(T, focus)].parent

\* MRBT.get_change_set._next
next_focus(T, focus, skip) ==
    IF skip THEN T.node[climb(T, focus)].parent
    ELSE T.node[T.node[T.node[focus].shortcut].next].shortcut

\* MRBT.get_change_set._write: the entry appended to res.
write(T, focus, target) ==
    [side |-> IF target = 1 THEN "Destination" ELSE "Source",
     key |-> T.node[T.node[focus].shortcut].key,
     value |-> T.node[T.node[focus].shortcut].val]

\* MRBT.get_change_set, lines 632-634: both entries of a key whose leaves differ.
\* Faulty variant: the destination's entry is written first.
write_both_reversed(T, other, f0, f1, res) ==
    IF T.node[T.node[f0].shortcut].digest # other.node[other.node[f1].shortcut].digest
    THEN res \o <<write(other, f1, 1), write(T, f0, 0)>>
    ELSE res

write_both(T, other, f0, f1, res) ==
    IF T.node[T.node[f0].shortcut].digest # other.node[other.node[f1].shortcut].digest
    THEN res \o <<write(T, f0, 0), write(other, f1, 1)>>
    ELSE res

\* The main loop of MRBT.get_change_set; f0 and f1 are focus[0] and focus[1].
RECURSIVE change_set_loop(_, _, _, _, _)
change_set_loop(T, other, f0, f1, res) ==
    IF f0 = None /\ f1 = None THEN res
    ELSE IF f1 = None
    THEN change_set_loop(T, other, next_focus(T, f0, FALSE), f1,
                         Append(res, write(T, f0, 0)))
    ELSE IF f0 = None
    THEN change_set_loop(T, other, f0, next_focus(other, f1, FALSE),
                         Append(res, write(other, f1, 1)))
    ELSE IF T.node[f0].key # other.node[f1].key
    THEN IF T.node[f0].key > other.node[f1].key
         THEN change_set_loop(T, other, f0, next_focus(other, f1, FALSE),
                              Append(res, write(other, f1, 1)))
         ELSE change_set_loop(T, other, next_focus(T, f0, FALSE), f1,
                              Append(res, write(T, f0, 0)))
    ELSE LET cut_allowed == T.node[f0].digest[2] = other.node[f1].digest[2]
         IN  change_set_loop(T, other,
                 next_focus(T, f0, cut_allowed), next_focus(other, f1, cut_allowed),
                 write_both(T, other, f0, f1, res))

\* MRBT.get_change_set
get_change_set(T, other) ==
    change_set_loop(T, other, first_focus(T), first_focus(other), <<>>)

\* MRBT._iter, lines 788-790: the leaves yielded before the closing None.
\* Faulty variant: the walk stops one leaf before the sentinel.
RECURSIVE iter_from_stops_early(_, _)
iter_from_stops_early(T, focus) ==
    IF T.node[focus].key = INF THEN <<>>
    ELSE IF T.node[T.node[focus].next].key = INF THEN <<>>
    ELSE <<focus>> \o iter_from_stops_early(T, T.node[focus].next)

RECURSIVE iter_from(_, _)
iter_from(T, focus) ==
    IF T.node[focus].key = INF THEN <<>>
    ELSE <<focus>> \o iter_from(T, T.node[focus].next)

\* MRBT._iter
iter(T) == iter_from(T, leftmost(T, T.root))

\* MRBT.__iter__(as_json=False): the dicts yielded, in order.
MRBT_iter(T) ==
    [i \in 1..Len(iter(T)) |-> PyDict(T.node[iter(T)[i]].key, T.node[iter(T)[i]].val)]

\* MRBT._get_change_set__legacy: an entry of `iterator` together with its
\* entry of `nodes`.  The generator self._iter() is the sequence of leaves it
\* yields and the number of next() calls made; the node last yielded is None
\* once the leaves are used up.
cursor(label, T) ==
    [label |-> label, items |-> [i \in 1..Len(iter(T)) |-> T.node[iter(T)[i]]], pos |-> 1]

at_end(c) == c.pos > Len(c.items)

node_of(c) == c.items[c.pos]

\* nodes[i] = next(iterator[i][1])
advance(c) == [c EXCEPT !.pos = @ + 1]

\* Lines 936-938: the entry appended for cursor c.
legacy_entry(c) ==
    [side |-> c.label, key |-> node_of(c).key, value |-> node_of(c).val]

\* Lines 922-924: both lists are swapped when nodes[0] is None.
\* Faulty variant: the nodes are swapped and the labelled iterators are not.
legacy_swap_nodes_only(c0, c1) ==
    IF at_end(c0)
    THEN <<[c1 EXCEPT !.label = c0.label], [c0 EXCEPT !.label = c1.label]>>
    ELSE <<c0, c1>>

legacy_swap(c0, c1) == IF at_end(c0) THEN <<c1, c0>> ELSE <<c0, c1>>

\* Lines 921-932: -1, 0 or 1.
legacy_direction(c0, c1) ==
    IF at_end(c1) THEN 0
    ELSE IF node_of(c0).key < node_of(c1).key THEN 0
    ELSE IF node_of(c0).key > node_of(c1).key THEN 1
    ELSE IF node_of(c0).digest # node_of(c1).digest THEN 1
    ELSE 0 - 1

\* The while loop of MRBT._get_change_set__legacy.
RECURSIVE legacy_loop(_, _, _)
legacy_step(c, direction, res) ==
    IF direction = 0 - 1 THEN legacy_loop(advance(c[1]), advance(c[2]), res)
    ELSE IF direction = 0
    THEN legacy_loop(advance(c[1]), c[2], Append(res, legacy_entry(c[1])))
    ELSE legacy_loop(c[1], advance(c[2]), Append(res, legacy_entry(c[2])))

legacy_swapped(c, res) == legacy_step(c, legacy_direction(c[1], c[2]), res)

legacy_loop(c0, c1, res) ==
    IF at_end(c0) /\ at_end(c1) THEN res
    ELSE legacy_swapped(legacy_swap(c0, c1), res)

\* MRBT._get_change_set__legacy
get_change_set__legacy(T, other) ==
    legacy_loop(cursor("Source", T), cursor("Destination", other), <<>>)

\* A verify that demands at least one hashing step before the root digest.
verify_rejects_bare_digest(t, vo, name) ==
    IF t.type # "MRBT" THEN "AttributeError"
    ELSE IF vo.type = "NoneType" THEN "TypeError"
    ELSE IF Len(vo.items) = 0 THEN "IndexError"
    ELSE IF Len(vo.items) = 1 \/ t.digest # vo.items[Len(vo.items)] THEN "False"
    ELSE IF \E i \in 1..(Len(vo.items) - 1) :
                 LET h == hsh(hash_func(name), vo.items[i][1], vo.items[i][2])
                 IN  h # vo.items[i + 1][1] /\ h # vo.items[i + 1][2]
         THEN "False"
    ELSE "True"

\* verify(t, vo, hsh): "True" / "False" when it returns, the exception's
\* name when it raises.  t.digest is an attribute only an MRBT object has;
\* vo[-1] needs a non-empty sequence.
verify(t, vo, name) ==
    IF t.type # "MRBT" THEN "AttributeError"
    ELSE IF vo.type = "NoneType" THEN "TypeError"
    ELSE IF Len(vo.items) = 0 THEN "IndexError"
    ELSE IF t.digest # vo.items[Len(vo.items)] THEN "False"
    ELSE IF \E i \in 1..(Len(vo.items) - 1) :
                 LET h == hsh(hash_func(name), vo.items[i][1], vo.items[i][2])
                 IN  h # vo.items[i + 1][1] /\ h # vo.items[i + 1][2]
         THEN "False"
    ELSE "True"

\* The default of verify's hsh parameter, and of MRBT.__init__'s.
DefaultHash == "sha256"

\* ------------------------------------------------------------ reference map
\* The key -> value map a caller keeps beside the tree: insert is
\* put-if-absent, delete is remove, set is put.
ref_insert(m, key, val) ==
    IF key \in DOMAIN m THEN m ELSE [x \in DOMAIN m \cup {key} |-> IF x = key THEN val ELSE m[x]]

ref_delete(m, key) == [x \in DOMAIN m \ {key} |-> m[x]]

ref_set(m, key, val) == [x \in DOMAIN m \cup {key} |-> IF x = key THEN val ELSE m[x]]

EmptyMap == [x \in {} |-> None]

\* ------------------------------------------------------------------ actions
Trees == {"A", "B"}

NoCall == [op |-> "none", key |-> None, val |-> None, found |-> FALSE,
           hang |-> FALSE, before |-> MRBT(DefaultHash),
           other |-> MRBT(DefaultHash), log |-> <<>>]

Init ==
    /\ tree = [t \in Trees |-> MRBT(DefaultHash)]
    /\ ref = [t \in Trees |-> EmptyMap]
    /\ last = NoCall

Call(op, key, val, hang) ==
    [op |-> op, key |-> key, val |-> val, found |-> contains(tree.A, key),
     hang |-> hang, before |-> tree.A, other |-> tree.B, log |-> <<>>]

\* T.insert(key, val) on tree A
Insert(key, val) ==
    /\ tree' = [tree EXCEPT !.A = insert(@, key, val)]
    /\ ref' = [ref EXCEPT !.A = ref_insert(@, key, val)]
    /\ last' = Call("insert", key, val, FALSE)

\* T.delete(key) on tree A
Delete(key) ==
    /\ tree' = [tree EXCEPT !.A = delete_call(@, key).T]
    /\ ref' = [ref EXCEPT !.A = ref_delete(@, key)]
    /\ last' = Call("delete", key, None, delete_call(tree.A, key).hang)

\* T.set(key, val) on tree A
Set(key, val) ==
    /\ tree' = [tree EXCEPT !.A = set(@, key, val)]
    /\ ref' = [ref EXCEPT !.A = ref_set(@, key, val)]
    /\ last' = Call("set", key, val, FALSE)

\* T[key] = val on tree A
SetItem(key, val) ==
    /\ tree' = [tree EXCEPT !.A = MRBT_setitem(@, key, val)]
    /\ ref' = [ref EXCEPT !.A = ref_set(@, key, val)]
    /\ last' = Call("setitem", key, val, FALSE)

Next ==
    \/ \E key \in Keys, val \in Vals : Insert(key, val)
    \/ \E key \in Keys : Delete(key)
    \/ \E key \in Keys, val \in Vals : Set(key, val)
    \/ \E key \in Keys, val \in Vals : SetItem(key, val)

Spec == Init /\ [][Next]_vars

\* The same calls on tree t, without the log of the last call.
TreeInsert(t, key, val) ==
    /\ tree' = [tree EXCEPT ![t] = insert(@, key, val)]
    /\ ref' = [ref EXCEPT ![t] = ref_insert(@, key, val)]
    /\ UNCHANGED last

TreeDelete(t, key) ==
    /\ tree' = [tree EXCEPT ![t] = delete(@, key)]
    /\ ref' = [ref EXCEPT ![t] = ref_delete(@, key)]
    /\ UNCHANGED last

TreeSet(t, key, val) ==
    /\ tree' = [tree EXCEPT ![t] = set(@, key, val)]
    /\ ref' = [ref EXCEPT ![t] = ref_set(@, key, val)]
    /\ UNCHANGED last

\* One tree over the larger key range, where every case of the insert and
\* delete fix-ups occurs.
DeepNext ==
    \/ \E key \in DeepKeys, val \in Vals : TreeInsert("A", key, val)
    \/ \E key \in DeepKeys : TreeDelete("A", key)
    \/ \E key \in DeepKeys, val \in Vals : TreeSet("A", key, val)

SpecDeep == Init /\ [][DeepNext]_vars

\* Two trees, each driven by its own sequence of calls.
PairNext ==
    \/ \E t \in Trees, key \in PairKeys, val \in Vals : TreeInsert(t, key, val)
    \/ \E t \in Trees, key \in PairKeys : TreeDelete(t, key)
    \/ \E t \in Trees, key \in PairKeys, val \in Vals : TreeSet(t, key, val)

SpecPair == Init /\ [][PairNext]_vars

\* A tree built by one insert call after another, each call logged as the
\* item an iterable would hold for it.
BuildInsert(key, val) ==
    /\ Len(last.log) < MaxLog
    /\ tree' = [tree EXCEPT !.A = insert(@, key, val)]
    /\ ref' = [ref EXCEPT !.A = ref_insert(@, key, val)]
    /\ last' = [last EXCEPT !.op = "insert", !.log = Append(@, PairItem(key, val))]

\* T.insert(key): the value defaults to None.
BuildInsertKey(key) ==
    /\ Len(last.log) < MaxLog
    /\ tree' = [tree EXCEPT !.A = insert(@, key, None)]
    /\ ref' = [ref EXCEPT !.A = ref_insert(@, key, None)]
    /\ last' = [last EXCEPT !.op = "insert", !.log = Append(@, KeyItem(key))]

BuildNext ==
    \/ \E key \in PairKeys, val \in Vals : BuildInsert(key, val)
    \/ \E key \in PairKeys : BuildInsertKey(key)

SpecBuild == Init /\ [][BuildNext]_vars

\* Two trees under calls that change them and calls that only read them.  A
\* read is logged with the two trees as they were when it was called; the
\* methods read assign to no attribute of a node or of the tree, so the
\* action leaves `tree` as it is.
ReadOps == {"get", "get_verified", "contains", "by_keys_order", "iter", "eq",
            "get_change_set"}

Read(op, key) ==
    [NoCall EXCEPT !.op = op, !.key = key, !.before = tree.A, !.other = tree.B]

\* A call that changes tree t; the log of the last read is cleared.
Change(t, T) ==
    /\ tree' = [tree EXCEPT ![t] = T]
    /\ last' = NoCall

ChangeInsert(t, key, val) ==
    /\ Change(t, insert(tree[t], key, val))
    /\ ref' = [ref EXCEPT ![t] = ref_insert(@, key, val)]

ChangeDelete(t, key) ==
    /\ Change(t, delete(tree[t], key))
    /\ ref' = [ref EXCEPT ![t] = ref_delete(@, key)]

ChangeSet(t, key, val) ==
    /\ Change(t, set(tree[t], key, val))
    /\ ref' = [ref EXCEPT ![t] = ref_set(@, key, val)]

\* Faulty variant: get(key, verified=True) refreshes the digests on its way up.
ReadGetVerified_refreshes(key) ==
    /\ last' = Read("get_verified", key)
    /\ tree' = [tree EXCEPT !.A =
                   IF contains(@, key)
                   THEN sweep(setattr(@, @.root, "weight", 0), @.node[search(@, key)[2]].shortcut)
                   ELSE setattr(@, @.root, "weight", 0)]
    /\ UNCHANGED ref

\* A.get(key), A.get(key, verified=True), key in A
ReadGet(key) ==
    /\ last' = [Read("get", key) EXCEPT !.val = get(tree.A, key)]
    /\ UNCHANGED <<tree, ref>>

ReadGetVerified(key) ==
    /\ last' = [Read("get_verified", key) EXCEPT !.val = get_verified(tree.A, key)[1]]
    /\ UNCHANGED <<tree, ref>>

ReadContains(key) ==
    /\ last' = [Read("contains", key) EXCEPT !.found = contains(tree.A, key)]
    /\ UNCHANGED <<tree, ref>>

\* A.by_keys_order(k)
ReadByKeysOrder(k) ==
    /\ last' = [Read("by_keys_order", k) EXCEPT !.val = by_keys_order(tree.A, k).key]
    /\ UNCHANGED <<tree, ref>>

\* list(A)
ReadIter ==
    /\ last' = [Read("iter", None) EXCEPT !.log = MRBT_iter(tree.A)]
    /\ UNCHANGED <<tree, ref>>

\* A == B
ReadEq ==
    /\ last' = [Read("eq", None) EXCEPT !.found = eq(tree.A, tree.B)]
    /\ UNCHANGED <<tree, ref>>

\* A.get_change_set(B)
ReadChangeSet ==
    /\ last' = [Read("get_change_set", None) EXCEPT !.log = get_change_set(tree.A, tree.B)]
    /\ UNCHANGED <<tree, ref>>

ReadNext ==
    \/ \E t \in Trees, key \in ReadKeys, val \in Vals : ChangeInsert(t, key, val)
    \/ \E t \in Trees, key \in ReadKeys : ChangeDelete(t, key)
    \/ \E t \in Trees, key \in ReadKeys, val \in Vals : ChangeSet(t, key, val)
    \/ \E key \in ReadKeys : ReadGet(key)
    \/ \E key \in ReadKeys : ReadGetVerified(key)
    \/ \E key \in ReadKeys : ReadContains(key)
    \/ \E k \in (0 - ReadMaxKey)..ReadMaxKey : ReadByKeysOrder(k)
    \/ ReadIter
    \/ ReadEq
    \/ ReadChangeSet

SpecRead == Init /\ [][ReadNext]_vars

\* One tree constructed with any of the hash options, a name that is not
\* recognised among them.
HashOptions == HashNames \cup {"md5"}

HashInit ==
    /\ \E name \in HashOptions : tree = [t \in Trees |-> MRBT(name)]
    /\ ref = [t \in Trees |-> EmptyMap]
    /\ last = NoCall

HashNext ==
    \/ \E key \in PairKeys, val \in Vals : TreeInsert("A", key, val)
    \/ \E key \in PairKeys : TreeDelete("A", key)
    \/ \E key \in PairKeys, val \in Vals : TreeSet("A", key, val)

SpecHash == HashInit /\ [][HashNext]_vars

\* ---------------------------------------------------- structural predicates
\* The objects of the tree, found by following child links from the root.
tree_nodes(T) == LET tr == preorder(T, T.root) IN {tr[i] : i \in 1..Len(tr)}

RECURSIVE subtree(_, _)
subtree(T, n) ==
    IF n = None THEN {}
    ELSE {n} \cup subtree(T, T.node[n].left) \cup subtree(T, T.node[n].right)

internal(T, n) == T.node[n].color # NIL

\* The leaves of the tree, left to right.
RECURSIVE leaves(_, _)
leaves(T, n) ==
    IF n = None THEN <<>>
    ELSE IF T.node[n].color = NIL THEN <<n>>
    ELSE leaves(T, T.node[n].left) \o leaves(T, T.node[n].right)

\* Invariant 1: left subtree <= key < right subtree.
BSTOrder(T) ==
    \A n \in tree_nodes(T) : internal(T, n) =>
        /\ \A m \in subtree(T, T.node[n].left) : T.node[m].key <= T.node[n].key
        /\ \A m \in subtree(T, T.node[n].right) : T.node[m].key > T.node[n].key

\* Invariant 2: two children for an internal node, none for a leaf, parent
\* links pointing back.
Dichotomy(T) ==
    /\ T.node[T.root].parent = None
    /\ \A n \in tree_nodes(T) :
          IF internal(T, n)
          THEN /\ T.node[n].left # None /\ T.node[n].right # None
               /\ T.node[T.node[n].left].parent = n
               /\ T.node[T.node[n].right].parent = n
          ELSE T.node[n].left = None /\ T.node[n].right = None

\* The numbers of non-RED nodes on the paths from n down to a leaf.
RECURSIVE black_counts(_, _)
black_counts(T, n) ==
    IF T.node[n].color = NIL THEN {1}
    ELSE {c + (IF T.node[n].color # RED THEN 1 ELSE 0) :
            c \in black_counts(T, T.node[n].left) \cup black_counts(T, T.node[n].right)}

\* Invariant 3: red-black balance.
RBBalance(T) ==
    /\ T.node[T.root].color # RED
    /\ \A n \in tree_nodes(T) : T.node[n].color = RED =>
          /\ T.node[T.node[n].left].color # RED
          /\ T.node[T.node[n].right].color # RED
    /\ Cardinality(black_counts(T, T.root)) = 1

\* Invariant 4: weights.
Weights(T) ==
    \A n \in tree_nodes(T) :
        T.node[n].weight =
            IF internal(T, n)
            THEN T.node[T.node[n].left].weight + T.node[T.node[n].right].weight
            ELSE IF T.node[n].key = INF THEN 0 ELSE 1

\* Invariant 5: the leaf list.
LeafList(T) ==
    LET ls == leaves(T, T.root) IN
    /\ T.node[ls[1]].prev = None
    /\ T.node[ls[Len(ls)]].key = INF
    /\ T.node[ls[Len(ls)]].next = None
    /\ \A i \in 1..(Len(ls) - 1) :
          /\ T.node[ls[i]].next = ls[i + 1]
          /\ T.node[ls[i + 1]].prev = ls[i]
          /\ T.node[ls[i]].key < T.node[ls[i + 1]].key

\* Invariant 6: shortcuts.
Shortcuts(T) ==
    \A n \in tree_nodes(T) :
        IF T.node[n].key = INF THEN T.node[n].shortcut = None
        ELSE /\ T.node[n].shortcut \in tree_nodes(T)
             /\ T.node[T.node[n].shortcut].shortcut = n
             /\ T.node[T.node[n].shortcut].key = T.node[n].key
             /\ internal(T, n) # internal(T, T.node[n].shortcut)

\* Invariant 7: every stored digest is the one calc_digest gives now.
DigestsFresh(T) ==
    \A n \in tree_nodes(T) : T.node[n].digest = calc_digest(T, n)

Consistent(T) ==
    /\ Dichotomy(T) /\ BSTOrder(T) /\ RBBalance(T) /\ Weights(T)
    /\ LeafList(T) /\ Shortcuts(T) /\ DigestsFresh(T)

\* The tree without colours, keys of internal nodes and identities: what the
\* root digest is computed from.
RECURSIVE shape(_, _)
shape(T, n) ==
    IF T.node[n].color = NIL THEN <<T.node[n].key, T.node[n].val, 0>>
    ELSE <<shape(T, T.node[n].left), shape(T, T.node[n].right)>>

\* ------------------------------------------------------------------- claims
\* C1: after any sequence of insert, delete and set calls the tree agrees
\* with the reference map: get(k) is the map's value for a present key and
\* None for an absent one, and `k in T` holds exactly for the map's keys.
C1_RefinesMap ==
    \A k \in Keys \cup DeepKeys :
        /\ contains(tree.A, k) <=> k \in DOMAIN ref.A
        /\ get(tree.A, k) = IF k \in DOMAIN ref.A THEN ref.A[k] ELSE None

\* Five keys holding both values, and an absent key.
C1_Witness ==
    /\ size(tree.A) = 5
    /\ \E k \in DeepKeys : k \notin DOMAIN ref.A /\ get(tree.A, k) = None
    /\ \E j, k \in DOMAIN ref.A :
          /\ ref.A[j] # ref.A[k]
          /\ get(tree.A, j) = ref.A[j] /\ get(tree.A, k) = ref.A[k]

\* C2: after every public operation the BST order holds.
C2_BSTOrder == BSTOrder(tree.A)

\* Six keys, and a key whose internal node is not the parent of its leaf.
C2_Witness ==
    /\ size(tree.A) = 6
    /\ \E n \in tree_nodes(tree.A) :
          /\ internal(tree.A, n)
          /\ tree.A.node[tree.A.node[n].shortcut].parent # n
          /\ internal(tree.A, tree.A.node[n].right)

\* C3: after every public operation the root is not RED, no RED node has a
\* RED child and every root-to-leaf path has the same number of non-RED nodes.
C3_RedBlack == RBBalance(tree.A)

\* Three keys under three BLACK nodes: a tree only deletes lead to.
C3_Witness ==
    /\ size(tree.A) = 3
    /\ \A n \in tree_nodes(tree.A) : tree.A.node[n].color # RED
    /\ black_counts(tree.A, tree.A.root) = {3}

\* C4: after every public operation every node of the tree stores the digest
\* calc_digest gives for its current children, or its current key and value.
C4_DigestsFresh == DigestsFresh(tree.A)

C4_Witness ==
    /\ size(tree.A) = 6
    /\ \E j, k \in DOMAIN ref.A : ref.A[j] # ref.A[k]
    /\ \E n \in tree_nodes(tree.A) : tree.A.node[n].color = RED

\* C5 (as claimed): two trees whose call sequences end with the same
\* key -> value map have equal root digests and compare equal.
C5_DigestOfMap ==
    ref.A = ref.B => eq(tree.A, tree.B)

\* C5 (amended): two trees that end with the same key -> value map and the
\* same shape have equal root digests and compare equal.
C5_DigestOfShape ==
    (ref.A = ref.B /\ shape(tree.A, tree.A.root) = shape(tree.B, tree.B.root))
        => eq(tree.A, tree.B)

C5_Witness ==
    /\ ref.A = ref.B
    /\ size(tree.A) = 3
    /\ shape(tree.A, tree.A.root) = shape(tree.B, tree.B.root)
    /\ eq(tree.A, tree.B)

\* C6 (as claimed): set(k, v) on a tree without k changes nothing.
C6_SetAbsentNoOp ==
    (last.op = "set" /\ ~last.found) => tree.A = last.before

\* C6 (amended): set(k, v) on a tree without k inserts the pair: k is present
\* with value v afterwards, the size has grown by one, the root digest has
\* changed and every other key keeps its value.
C6_SetAbsentInserts ==
    (last.op = "set" /\ ~last.found) =>
        /\ contains(tree.A, last.key)
        /\ get(tree.A, last.key) = last.val
        /\ size(tree.A) = size(last.before) + 1
        /\ digest(tree.A) # digest(last.before)
        /\ \A k \in Keys \ {last.key} :
              /\ contains(tree.A, k) <=> contains(last.before, k)
              /\ get(tree.A, k) = get(last.before, k)

C6_Witness ==
    /\ last.op = "set" /\ ~last.found
    /\ size(last.before) >= 1
    /\ contains(tree.A, last.key)

\* C7: T[k] = v inserts (k, v) when k is absent and overwrites the value when
\* k is present; afterwards get(k) = v and all structural invariants hold.
C7_SetItemUpserts ==
    last.op = "setitem" =>
        /\ contains(tree.A, last.key)
        /\ get(tree.A, last.key) = last.val
        /\ size(tree.A) = size(last.before) + (IF last.found THEN 0 ELSE 1)
        /\ Consistent(tree.A)

C7_Witness ==
    /\ last.op = "setitem" /\ ~last.found
    /\ size(last.before) >= 2
    /\ get(tree.A, last.key) = last.val

\* C8: for every key k present in the tree, verify applied to the tree's
\* current root digest and the verification object of get(k, verified=True)
\* returns True.
C8_RoundTrip ==
    \A k \in DOMAIN ref.A :
        verify(PyTuple(digest(tree.A)), get_verified(tree.A, k)[2], DefaultHash) = "True"

\* C9: a verification object produced by tree A is rejected (verify returns
\* False) against the root digest of a tree B with different contents.
C9_RejectsOtherTree ==
    \A k \in DOMAIN ref.A :
        ref.A # ref.B =>
            verify(PyTuple(digest(tree.B)), get_verified(tree.A, k)[2], DefaultHash) = "False"

\* C10: verify returns False, and never raises, for the empty tuple and for
\* the None that get(k, verified=True) returns for an absent key.
C10_VerifyNeverRaises ==
    /\ verify(PyMRBT(tree.A), PyTuple(<<>>), DefaultHash) = "False"
    /\ \A k \in Keys \ DOMAIN ref.A :
          verify(PyMRBT(tree.A), get_verified(tree.A, k)[2], DefaultHash) = "False"

\* The entries a diff of map a against map b must hold: a "Source" entry for
\* every pair of a that is not a pair of b, a "Destination" entry for every
\* pair of b that is not a pair of a.
expected_changes(a, b) ==
    {[side |-> "Source", key |-> k, value |-> a[k]] :
        k \in {x \in DOMAIN a : x \notin DOMAIN b \/ b[x] # a[x]}}
    \cup
    {[side |-> "Destination", key |-> k, value |-> b[k]] :
        k \in {x \in DOMAIN b : x \notin DOMAIN a \/ a[x] # b[x]}}

entries(res) == {res[i] : i \in 1..Len(res)}

\* C11: for two trees each reached by its own call sequence,
\* A.get_change_set(B) holds exactly one "Source" entry for every pair of A
\* that is not a pair of B, exactly one "Destination" entry for every pair of
\* B that is not a pair of A, and nothing else.
C11_DiffExact ==
    LET res == get_change_set(tree.A, tree.B) IN
    /\ entries(res) = expected_changes(ref.A, ref.B)
    /\ Len(res) = Cardinality(expected_changes(ref.A, ref.B))

\* A key with two values (two entries), a key of A alone, a key with the same
\* value in both trees, and trees of different shapes.
C11_Witness ==
    /\ \E j, k, l \in DOMAIN ref.A :
          /\ j \in DOMAIN ref.B /\ ref.A[j] # ref.B[j]
          /\ k \notin DOMAIN ref.B
          /\ l \in DOMAIN ref.B /\ ref.A[l] = ref.B[l]
    /\ Len(get_change_set(tree.A, tree.B)) = 3
    /\ internal(tree.A, tree.A.node[tree.A.root].left)
    /\ ~internal(tree.B, tree.B.node[tree.B.root].left)

\* C12: after every public operation the leaves, left to right, form a doubly
\* linked list in strictly ascending key order: the leftmost leaf has no prev,
\* every leaf is the prev of its next, and the +inf sentinel is the tail with
\* no next; following next from the leftmost leaf visits every leaf of the
\* tree exactly once.
C12_LeafList ==
    LET ls == leaves(tree.A, tree.A.root) IN
    /\ LeafList(tree.A)
    /\ Len(ls) = Cardinality({ls[i] : i \in 1..Len(ls)})
    /\ \A i \in 1..Len(ls) :
          tree.A.node[ls[i]].next # None =>
              tree.A.node[tree.A.node[ls[i]].next].prev = ls[i]

\* Four keys left in a tree whose leaves are not in the order of their
\* creation, so leaves have been linked in and unlinked in the middle.
C12_Witness ==
    LET ls == leaves(tree.A, tree.A.root) IN
    /\ Len(ls) = 5
    /\ tree.A.node[ls[2]].key + 1 < tree.A.node[ls[3]].key
    /\ tree.A.node[tree.A.node[ls[3]].prev].key = tree.A.node[ls[2]].key

\* C13: after every public operation every internal node with key k has its
\* shortcut at the leaf with key k, that leaf's shortcut points back at it, and
\* the +inf sentinel has no shortcut.
C13_Shortcuts ==
    /\ Shortcuts(tree.A)
    /\ \A n \in tree_nodes(tree.A) :
          internal(tree.A, n) =>
              /\ ~internal(tree.A, tree.A.node[n].shortcut)
              /\ \A m \in tree_nodes(tree.A) :
                    (~internal(tree.A, m) /\ tree.A.node[m].key = tree.A.node[n].key)
                        => tree.A.node[n].shortcut = m

\* A delete whose matching internal node was not the parent of the removed leaf.
C13_Witness ==
    /\ last.op = "delete" /\ last.found
    /\ LET sr == search(last.before, last.key)[2]
       IN  last.before.node[last.before.node[sr].shortcut].parent # sr
    /\ size(tree.A) >= 2

\* C14: after every public operation every node's weight is the number of
\* non-sentinel leaves in its subtree, so size (and len) is the number of keys
\* stored.
C14_Weights ==
    /\ \A n \in tree_nodes(tree.A) :
          tree.A.node[n].weight =
              Cardinality({m \in subtree(tree.A, n) :
                              ~internal(tree.A, m) /\ tree.A.node[m].key # INF})
    /\ size(tree.A) = Cardinality(DOMAIN ref.A)

\* Five of six keys left, with a subtree of three keys below the root.
C14_Witness ==
    /\ size(tree.A) = 5
    /\ \E n \in tree_nodes(tree.A) : n # tree.A.root /\ tree.A.node[n].weight = 3

\* C15: after every public operation every internal node has two children
\* whose parent is that node, no leaf has a child, and the tree consists of
\* size internal nodes, size keyed leaves and the one +inf sentinel; a
\* successful insert adds one internal node and one leaf, a successful delete
\* removes one of each, and nothing else stays referenced.
C15_Dichotomy ==
    LET nodes == tree_nodes(tree.A)
        inner(T) == {n \in tree_nodes(T) : internal(T, n)}
        outer(T) == {n \in tree_nodes(T) : ~internal(T, n)}
        grown == IF (last.op \in {"insert", "set", "setitem"}) /\ ~last.found THEN 1
                 ELSE IF last.op = "delete" /\ last.found THEN -1
                 ELSE 0
    IN  /\ Dichotomy(tree.A)
        /\ Cardinality(inner(tree.A)) = size(tree.A)
        /\ Cardinality({n \in outer(tree.A) : tree.A.node[n].key # INF}) = size(tree.A)
        /\ Cardinality({n \in outer(tree.A) : tree.A.node[n].key = INF}) = 1
        /\ Cardinality(nodes) = 2 * size(tree.A) + 1
        /\ Len(tree.A.node) = Cardinality(nodes)
        /\ Cardinality(inner(tree.A)) = Cardinality(inner(last.before)) + grown
        /\ Cardinality(outer(tree.A)) = Cardinality(outer(last.before)) + grown

\* A successful delete from a tree of four keys.
C15_Witness ==
    /\ last.op = "delete" /\ last.found
    /\ size(last.before) = 4
    /\ Cardinality(tree_nodes(tree.A)) = 7

\* The keys of a map in ascending order.
sorted_keys(m) == ascending(DOMAIN m)

\* The indices by_keys_order is called with: the whole range of a full tree
\* and two positions beyond it on either side.
Indices == (0 - DeepMaxKey - 2)..(DeepMaxKey + 2)

C17_OutOfRange ==
    \A i \in Indices :
        (i >= size(tree.A) \/ i < 0 - size(tree.A)) => by_keys_order(tree.A, i) = NoDict

\* Three keys: index 3 and index -4 are out of range, 2 and -3 are not.
C17_Witness ==
    /\ size(tree.A) = 3
    /\ by_keys_order(tree.A, 3) = NoDict
    /\ by_keys_order(tree.A, 0 - 4) = NoDict
    /\ by_keys_order(tree.A, 2) # NoDict
    /\ by_keys_order(tree.A, 0 - 3) # NoDict

\* C18: iterating the tree yields every stored (key, value) pair exactly once,
\* in strictly ascending key order, never the +inf sentinel, and nothing for
\* an empty tree.
C18_Iteration ==
    LET items == MRBT_iter(tree.A) IN
    /\ Len(items) = Cardinality(DOMAIN ref.A)
    /\ \A i \in 1..Len(items) :
          /\ items[i].key = sorted_keys(ref.A)[i]
          /\ items[i].value = ref.A[items[i].key]
          /\ items[i].key # INF
    /\ \A i \in 1..(Len(items) - 1) : items[i].key < items[i + 1].key

\* Four keys with a gap, holding both values.
C18_Witness ==
    LET items == MRBT_iter(tree.A) IN
    /\ Len(items) = 4
    /\ items[1].key + 1 < items[2].key
    /\ items[3].value # items[4].value

\* C19: insert(k, v') on a tree that holds k keeps the stored value and
\* changes no field of any node, and delete(k) on a tree without k changes
\* nothing either.
C19_MissIsNoOp ==
    /\ (last.op = "insert" /\ last.found) =>
          /\ tree.A = last.before
          /\ get(tree.A, last.key) = get(last.before, last.key)
          /\ digest(tree.A) = digest(last.before)
    /\ (last.op = "delete" /\ ~last.found) => tree.A = last.before

\* An insert of a present key with a value other than the stored one.
C19_Witness ==
    /\ last.op = "insert" /\ last.found
    /\ get(last.before, last.key) # last.val
    /\ get(tree.A, last.key) # last.val
    /\ size(tree.A) >= 2

\* C20: whenever the calls leave the tree without keys, the root is the
\* single +inf sentinel leaf, size is 0 and the root digest is the digest of
\* a freshly constructed empty tree.
C20_EmptyAgain ==
    DOMAIN ref.A = {} =>
        /\ tree.A.node[tree.A.root].color = NIL
        /\ tree.A.node[tree.A.root].key = INF
        /\ tree.A.node[tree.A.root].parent = None
        /\ tree_nodes(tree.A) = {tree.A.root}
        /\ size(tree.A) = 0
        /\ digest(tree.A) = digest(MRBT(DefaultHash))
        /\ tree.A = MRBT(DefaultHash)

\* The last key has just been deleted.
C20_Witness ==
    /\ last.op = "delete" /\ last.found
    /\ size(last.before) = 1
    /\ DOMAIN ref.A = {}
    /\ size(tree.A) = 0

\* C21: two trees that hold different key -> value maps never compare equal
\* under ==: their root digests differ; in particular a tree with keys is
\* never equal to an empty one.
C21_DifferentMapsDiffer ==
    ref.A # ref.B =>
        /\ ~eq(tree.A, tree.B)
        /\ ~eq(tree.B, tree.A)
        /\ digest(tree.A) # digest(tree.B)

\* Two trees of the same shape over the same three keys, one value apart.
C21_Witness ==
    /\ DOMAIN ref.A = PairKeys /\ DOMAIN ref.B = PairKeys
    /\ Cardinality({k \in PairKeys : ref.A[k] # ref.B[k]}) = 1
    /\ \A n \in tree_nodes(tree.A) :
          n \in tree_nodes(tree.B) /\ tree.A.node[n].key = tree.B.node[n].key
    /\ ~eq(tree.A, tree.B)

\* C22: from_iter(seq) and from_dict(d) give a tree with the root digest of an
\* empty tree on which insert was called for the same items one at a time, in
\* the order the iterable or the mapping enumerates them.
C22_ConstructorsFoldInsert ==
    /\ digest(from_iter(last.log, DefaultHash)) = digest(tree.A)
    /\ eq(from_iter(last.log, DefaultHash), tree.A)
    /\ (py_dict(last.log) = last.log /\ \A i \in 1..Len(last.log) : last.log[i].pair) =>
          /\ digest(from_dict(py_dict(last.log), DefaultHash)) = digest(tree.A)
          /\ eq(from_dict(py_dict(last.log), DefaultHash), tree.A)

\* Three pairs with different keys, and a fourth item repeating a key with
\* another value: an iterable from_iter takes, of which the first three make a
\* dict.
C22_Witness ==
    /\ Len(last.log) = 4
    /\ size(tree.A) = 3
    /\ \A i \in 1..3 : last.log[i].pair
    /\ \E i \in 1..3 : /\ last.log[i].key = last.log[4].key
                       /\ last.log[i].val # last.log[4].val
    /\ last.log[1].key > last.log[2].key

rotations_in(trace) ==
    UNION {{trace[i].rot[j] : j \in 1..Len(trace[i].rot)} : i \in 1..Len(trace)}

\* The calls of _rotate made by any one insert or delete call on tree T.
rotations_on(T) ==
    UNION ({rotations_in(insert_iterations(T, key, val)) : key \in DeepKeys, val \in Vals}
           \cup {rotations_in(delete_iterations(T, key)) : key \in DeepKeys})

\* The stored weight of node n is what its children's stored weights (for a
\* leaf, its kind) make it.
WeightAt(T, n) ==
    T.node[n].weight =
        IF internal(T, n)
        THEN T.node[T.node[n].left].weight + T.node[T.node[n].right].weight
        ELSE IF T.node[n].key = INF THEN 0 ELSE 1

\* BST order, dichotomy with parent links, leaf list and shortcuts hold in the
\* tree as _rotate returns it.
RotationKeepsLinks(r) ==
    /\ BSTOrder(r.after)
    /\ Dichotomy(r.after)
    /\ LeafList(r.after)
    /\ Shortcuts(r.after)
    /\ tree_nodes(r.after) = tree_nodes(r.before)

\* The nodes a call of _rotate gives a new child: the rotated node, its
\* former parent and that parent's parent.
rewired(r) ==
    {r.node, r.before.node[r.node].parent,
     r.before.node[r.before.node[r.node].parent].parent}

\* C24 (as claimed): as _rotate returns, before any refresh, the BST order,
\* the dichotomy with parent links, the leaf list, the shortcuts and the
\* weight sum of every node that had it before the call all hold.
C24_RotationKeepsWeights ==
    \A r \in rotations_on(tree.A) :
        /\ RotationKeepsLinks(r)
        /\ \A n \in tree_nodes(r.after) : WeightAt(r.before, n) => WeightAt(r.after, n)

\* C24 (amended): as _rotate returns, before any refresh, the BST order, the
\* dichotomy with parent links, the leaf list and the shortcuts all hold, and
\* so does the weight sum of every node that had it before the call, other
\* than the three nodes whose children the rotation changes: the rotated node,
\* its former parent and that parent's parent.
C24_RotationKeepsLinks ==
    \A r \in rotations_on(tree.A) :
        /\ RotationKeepsLinks(r)
        /\ \A n \in tree_nodes(r.after) \ rewired(r) :
              WeightAt(r.before, n) => WeightAt(r.after, n)

\* A tree on which some call rotates a node whose weight was the sum of its
\* children's before the rotation and is not after it.
C24_Witness ==
    \E r \in rotations_on(tree.A) :
        /\ RotationKeepsLinks(r)
        /\ WeightAt(r.before, r.node)
        /\ ~WeightAt(r.after, r.node)
        /\ r.after.node[r.node].digest # calc_digest(r.after, r.node)

\* The keys of the leaves below node n.
leaf_keys(T, n) == {T.node[m].key : m \in {x \in subtree(T, n) : ~internal(T, x)}}

\* C25: after every public operation the leaf with key k is the rightmost
\* leaf of the left subtree of the internal node with key k; so when k is
\* deleted and its leaf's parent is another node, the key the matching node
\* inherits from that parent is the largest key left in its left subtree.
C25_LeafInLeftSubtree ==
    /\ \A n \in tree_nodes(tree.A) : internal(tree.A, n) =>
          LET ls == leaves(tree.A, tree.A.node[n].left)
          IN  /\ ls[Len(ls)] = tree.A.node[n].shortcut
              /\ tree.A.node[ls[Len(ls)]].key = tree.A.node[n].key
              /\ tree.A.node[n].shortcut \notin subtree(tree.A, tree.A.node[n].right)
    /\ \A k \in DOMAIN ref.A :
          LET sr == search(tree.A, k)[2]
              parent == tree.A.node[tree.A.node[sr].shortcut].parent
          IN  parent # sr =>
                  /\ tree.A.node[parent].key \in leaf_keys(tree.A, tree.A.node[sr].left)
                  /\ \A j \in leaf_keys(tree.A, tree.A.node[sr].left) \ {k} :
                        j <= tree.A.node[parent].key

\* The root's key has its leaf three levels down, as the right child of
\* another node, in a left subtree of three leaves.
C25_Witness ==
    LET n == tree.A.root
        ls == leaves(tree.A, tree.A.node[n].left)
    IN  /\ internal(tree.A, n)
        /\ Len(ls) = 3
        /\ tree.A.node[tree.A.node[n].shortcut].parent # tree.A.node[n].left
        /\ tree.A.node[tree.A.node[n].shortcut].parent # n
        /\ size(tree.A) = 5

\* How often entry e occurs in the list res.
occurrences(res, e) == Cardinality({i \in 1..Len(res) : res[i] = e})

\* C26: for every pair of trees, A._get_change_set__legacy(B) and
\* A.get_change_set(B) hold the same entries (side, key, value) the same number
\* of times, and each side names the tree the pair is in, also after the legacy
\* merge has swapped its two cursors.
C26_LegacyEquivalent ==
    /\ \A e \in entries(get_change_set__legacy(tree.A, tree.B))
                \cup entries(get_change_set(tree.A, tree.B)) :
          occurrences(get_change_set__legacy(tree.A, tree.B), e)
              = occurrences(get_change_set(tree.A, tree.B), e)
    /\ entries(get_change_set__legacy(tree.A, tree.B)) = expected_changes(ref.A, ref.B)

\* A's leaves run out first (the cursors are swapped) after a key with two
\* values: B alone holds the largest key.
C26_Witness ==
    /\ PairMaxKey \in DOMAIN ref.B /\ PairMaxKey \notin DOMAIN ref.A
    /\ \E k \in DOMAIN ref.A : k \in DOMAIN ref.B /\ ref.A[k] # ref.B[k]
    /\ Len(get_change_set__legacy(tree.A, tree.B)) >= 3

\* The node with no parent above node n: where the closing sweep of a fix-up
\* started at n ends.
RECURSIVE top(_, _)
top(T, n) == IF T.node[n].parent = None THEN n ELSE top(T, T.node[n].parent)

\* The closing sweep started at the focus the loop exits with ends at the root.
sweep_reaches_root(T, focus) == top(T, focus) = T.root

insert_sweep_reaches_root(r) == sweep_reaches_root(r[1], r[2])

delete_sweep_reaches_root(r) == ~r.hang /\ ~r.raised /\ sweep_reaches_root(r.T, r.focus)

delete_exit(c) == delete_fix_loop(c.T, c.focus, c.d_black, <<>>)

cases(trace) == {trace[i].case : i \in 1..Len(trace)}

\* The most iterations a fix-up loop may take on a tree of the model: each
\* moves the focus up, or is followed by at most two more.
MaxIterations == 2 * DeepMaxKey

\* C27: every insert and every delete call on a reachable tree returns: the
\* insert-fix loop and the delete-fix loop end after a bounded number of
\* iterations, each iteration takes one of the listed cases (none falls
\* through with the double-black flag still set), and the closing sweep ends
\* at the root.
C27_FixupsTerminate ==
    /\ \A key \in DeepKeys \ DOMAIN ref.A : \A val \in Vals :
          /\ Len(insert_iterations(tree.A, key, val)) <= MaxIterations
          /\ cases(insert_iterations(tree.A, key, val)) \subseteq {"root", "1", "2", "3"}
          /\ insert_sweep_reaches_root(
                 insert_fix_loop(
                     insert_fix_entry(insert_link(tree.A, search(tree.A, key)[2], key, val),
                                      new_id(tree.A, 2)),
                     new_id(tree.A, 2)))
          /\ DigestsFresh(insert(tree.A, key, val))
    /\ \A key \in DOMAIN ref.A :
          /\ Len(delete_iterations(tree.A, key)) <= MaxIterations
          /\ cases(delete_iterations(tree.A, key)) \subseteq {"1", "2", "3", "4", "5", "6"}
          /\ ~delete_call(tree.A, key).hang
          /\ delete_sweep_reaches_root(
                 delete_exit(delete_fix_call(tree.A, search(tree.A, key)[2],
                                             tree.A.node[search(tree.A, key)[2]].shortcut)))
          /\ DigestsFresh(delete(tree.A, key))

\* A tree with a delete that takes three iterations of the double-black
\* loop, the last of them clearing the flag.
C27_Witness ==
    \E key \in DOMAIN ref.A :
        /\ Len(delete_iterations(tree.A, key)) = 3
        /\ ~delete_iterations(tree.A, key)[3].d_black
        /\ ~delete_call(tree.A, key).hang

\* C28: for a tree constructed with any recognised hash option and every key
\* k in it, verify called with two arguments, the tree's root digest and the
\* verification object of get(k, verified=True), returns True.
C28_RoundTripAnyHash ==
    \A k \in DOMAIN ref.A :
        verify(PyTuple(digest(tree.A)), get_verified(tree.A, k)[2], DefaultHash) = "True"

C30_SiblingInternal ==
    \A key \in DOMAIN ref.A :
        \A r \in {delete_iterations(tree.A, key)[i] :
                     i \in 1..Len(delete_iterations(tree.A, key))} :
            r.case # "1" =>
                /\ r.S # None
                /\ r.T.node[r.S].color \in {RED, BLACK}
                /\ r.Sc # <<>>
                /\ r.Sc[1] # None /\ r.Sc[2] # None
                /\ r.case \in {"2", "3", "4", "5", "6"}

\* A delete whose fix-up runs a second iteration away from the root, with the
\* sibling read there being an internal node with two children.
C30_Witness ==
    \E key \in DOMAIN ref.A :
        /\ Len(delete_iterations(tree.A, key)) >= 2
        /\ delete_iterations(tree.A, key)[1].case = "2"
        /\ delete_iterations(tree.A, key)[2].case \in {"4", "5", "6"}
        /\ delete_iterations(tree.A, key)[2].S # None
        /\ delete_iterations(tree.A, key)[2].Sc[1] # None

\* The non-empty suffixes of a verification object: vo[i:] for every index i.
suffixes(vo) ==
    {PyTuple(SubSeq(vo.items, i, Len(vo.items))) : i \in 1..Len(vo.items)}

\* C31: verify does not bind a verification object to a key or a value:
\* whenever verify accepts the object get(k, verified=True) returns, it also
\* accepts every non-empty suffix of it, and in particular the one-element
\* object that holds only the trusted root digest.
C31_SuffixAccepted ==
    \A k \in DOMAIN ref.A, name \in HashOptions :
        verify(PyMRBT(tree.A), get_verified(tree.A, k)[2], name) = "True" =>
            /\ \A s \in suffixes(get_verified(tree.A, k)[2]) :
                  verify(PyMRBT(tree.A), s, name) = "True"
            /\ verify(PyMRBT(tree.A), PyTuple(<<digest(tree.A)>>), name) = "True"

\* A key whose accepted verification object has at least three digests, and
\* whose object without its first digest (the one of the key's own leaf) is
\* accepted as well.
C31_Witness ==
    \E k \in DOMAIN ref.A, name \in HashOptions :
        /\ Len(get_verified(tree.A, k)[2].items) >= 3
        /\ verify(PyMRBT(tree.A), get_verified(tree.A, k)[2], name) = "True"
        /\ verify(PyMRBT(tree.A), PyTuple(Tail(get_verified(tree.A, k)[2].items)), name) = "True"
        /\ Tail(get_verified(tree.A, k)[2].items)[1] # get_verified(tree.A, k)[2].items[1]

====
